---- MODULE Spec2Model ----
(***************************************************************************)
(* Model of the recursive research engine, deepResearch, of               *)
(* src/core/research/engine.ts.                                            *)
(*                                                                         *)
(* One invocation of deepResearch is a "call", named by its path in the   *)
(* invocation tree: the top-level call is <<>>, and the call started by   *)
(* branch j of call p is Append(p, j).  The program runs on a single      *)
(* threaded event loop, so the code between two awaits is one step: an    *)
(* action is the completion of one awaited external call (planner,        *)
(* fetcher, extractor) together with everything that runs synchronously   *)
(* after it, promise settlement and the limiter's hand-over included.     *)
(***************************************************************************)
EXTENDS Integers, Sequences, FiniteSets, TLC

VARIABLES calls, sink, onProgress, telemetry, nextQuery, trace, updates,
          jobs, clients, response

vars == <<calls, sink, onProgress, telemetry, nextQuery, trace, updates,
          jobs, clients, response>>

\* what no step of deepResearch changes: the onProgress callback it was
\* given, the telemetry client, and the state of the two components modelled
\* apart from it, the text of the next query, the metadata of the remote
\* trace and the jobs of the REST API
outside == <<onProgress, telemetry, nextQuery, trace, updates, jobs, clients, response>>

(***************************************************************************)
(* Bounds of the model.                                                    *)
(***************************************************************************)
MaxDepth == 3
MaxBreadth == 4
MaxBranches == 6
MaxPath == MaxDepth - 1
MaxRaw == MaxBreadth + 1
MaxLiveBreadth == 2
MaxNegativeDepth == 1

(***************************************************************************)
(* Program constants.                                                      *)
(***************************************************************************)
DEFAULT_CONCURRENCY_LIMIT == 3

concurrencyLimit == DEFAULT_CONCURRENCY_LIMIT

\* config.research.defaultDepth and defaultBreadth
defaultDepth == 2

defaultBreadth == 4

(***************************************************************************)
(* The answers of the external collaborators.                              *)
(***************************************************************************)
InitialAccumulators ==
  { [learnings |-> <<>>, visitedUrls |-> <<>>],
    [learnings |-> <<"a">>, visitedUrls |-> <<"u">>] }

FetchAnswers ==
  { [ok |-> FALSE, urls |-> <<>>, content |-> FALSE],
    [ok |-> TRUE, urls |-> <<>>, content |-> FALSE],
    [ok |-> TRUE, urls |-> <<"u">>, content |-> TRUE] }

ExtractAnswers ==
  { [ok |-> FALSE, learnings |-> <<>>, followUp |-> FALSE] }
  \cup { [ok |-> TRUE, learnings |-> l, followUp |-> f] :
           l \in {<<>>, <<"a">>, <<"b">>}, f \in BOOLEAN }

(***************************************************************************)
(* Array helpers.                                                          *)
(***************************************************************************)
Range(s) == { s[i] : i \in 1..Len(s) }

Front(s) == SubSeq(s, 1, Len(s) - 1)

Last(s) == s[Len(s)]

Min(a, b) == IF a <= b THEN a ELSE b

Max(a, b) == IF a >= b THEN a ELSE b

NoDuplicates(s) == \A i, k \in 1..Len(s) : s[i] = s[k] => i = k

\* [...new Set(s)]: the first occurrence of every element, in order
Dedup[s \in Seq(STRING)] ==
  IF s = <<>> THEN <<>>
  ELSE LET d == Dedup[Front(s)]
       IN IF Last(s) \in Range(d) THEN d ELSE Append(d, Last(s))

\* results.flatMap(r => r.learnings)
FlatMap[ss \in Seq(Seq(STRING))] ==
  IF ss = <<>> THEN <<>> ELSE FlatMap[Front(ss)] \o Last(ss)

\* queries.slice(0, numQueries) of a list of r elements: its length
SliceLen(r, numQueries) ==
  IF numQueries >= 0 THEN Min(r, numQueries) ELSE Max(r + numQueries, 0)

(***************************************************************************)
(* Depth and breadth of a recursive call.                                  *)
(***************************************************************************)
NewDepthSame(depth) == depth

NewDepth(depth) == depth - 1

NewBreadthFloor(breadth) == breadth \div 2

\* Math.ceil(breadth / 2)
NewBreadth(breadth) == -((-breadth) \div 2)

\* the number of branches of the largest invocation tree of an input
RECURSIVE TreeSize(_, _)
TreeSize(depth, breadth) ==
  IF depth - 1 > 0 /\ breadth > 0
  THEN breadth * (1 + TreeSize(depth - 1, NewBreadth(breadth)))
  ELSE Max(breadth, 0)

(***************************************************************************)
(* State of a call and of a branch.                                        *)
(***************************************************************************)
NewBranch(started) ==
  [ pc |-> IF started THEN "fetch" ELSE "queued",
    failed |-> FALSE,
    reported |-> FALSE,
    followUp |-> FALSE,
    extractFailed |-> FALSE,
    fetches |-> IF started THEN 1 ELSE 0,
    extracts |-> 0,
    fetched |-> FALSE,
    spanWrites |-> {},
    newUrls |-> <<>>,
    newLearnings |-> <<>>,
    res |-> [learnings |-> <<>>, visitedUrls |-> <<>>] ]

NewCall(depth, breadth, learnings, visitedUrls) ==
  [ depth |-> depth,
    breadth |-> breadth,
    learnings |-> learnings,
    visitedUrls |-> visitedUrls,
    pc |-> "plan",
    plans |-> 1,
    parentSpanId |-> <<>>,
    br |-> <<>>,
    progress |-> [ currentDepth |-> depth, totalDepth |-> depth,
                   currentBreadth |-> breadth, totalBreadth |-> breadth,
                   totalQueries |-> 0, completedQueries |-> 0 ],
    result |-> [learnings |-> <<>>, visitedUrls |-> <<>>] ]

\* the REST API has no job, no client and has answered no request
Response(route, jobId, code, status, result, error) ==
  [route |-> route, jobId |-> jobId, code |-> code, status |-> status,
   result |-> result, error |-> error]

NoResponse == Response("none", 0, 0, "", FALSE, "")

NoApi == jobs = <<>> /\ clients = <<>> /\ response = NoResponse

\* the text of the next query and the remote trace are not in use
NoNextQuery == [goal |-> <<>>, followUpQuestions |-> <<>>, out |-> <<>>, built |-> FALSE]

EngineOnly ==
  /\ onProgress = "returns"
  /\ nextQuery = NoNextQuery
  /\ trace = {}
  /\ updates = <<>>
  /\ NoApi

\* the breadths of the top-level call: nothing validates the parameter, and
\* a negative one reaches the planner like any other; it is tried on the
\* calls of depth at most MaxNegativeDepth
Breadths == (-1)..MaxBreadth

Init ==
  /\ \E d \in 0..MaxDepth, b \in Breadths, acc \in InitialAccumulators :
       /\ TreeSize(d, b) <= MaxBranches
       /\ b < 0 => d <= MaxNegativeDepth
       /\ calls = (<<>> :> NewCall(d, b, acc.learnings, acc.visitedUrls))
  /\ sink = <<>>
  /\ telemetry = "off"
  /\ EngineOnly

(***************************************************************************)
(* The limiter, pLimit(config.research.concurrencyLimit): the first        *)
(* concurrencyLimit tasks start at once, the others wait in a FIFO queue,  *)
(* and a task that settles hands its slot to the head of the queue.  A     *)
(* task that starts runs up to its first await, the fetcher call.          *)
(***************************************************************************)
ScheduleAll(n) == [j \in 1..n |-> NewBranch(TRUE)]

Schedule(n) == [j \in 1..n |-> NewBranch(j <= concurrencyLimit)]

Queued(c) == { j \in 1..Len(c.br) : c.br[j].pc = "queued" }

InFlight(c) == { j \in 1..Len(c.br) : c.br[j].pc \in {"fetch", "extract", "recurse"} }

\* const x = v; F(x): v is evaluated once and F gets its value
Eager(v, F(_)) == CHOOSE r \in { F(x) : x \in {v} } : TRUE

StartNext(cs0, p) ==
  Eager(cs0, LAMBDA cs :
    IF Queued(cs[p]) = {} THEN cs
    ELSE LET j == CHOOSE k \in Queued(cs[p]) : \A m \in Queued(cs[p]) : k <= m
         IN [cs EXCEPT ![p].br[j].pc = "fetch", ![p].br[j].fetches = @ + 1])

(***************************************************************************)
(* reportProgress: Object.assign(progress, update), then the sink gets     *)
(* the progress object.  The variable sink holds the last snapshot that    *)
(* onProgress was called with, and is empty before the first call.  The    *)
(* variable onProgress is what the callback does when it is called: it     *)
(* "returns", it "throws", or it throws when the snapshot counts a         *)
(* completed query ("throwsOnCompleted").  reportProgress is an async      *)
(* function that calls onProgress outside any try: when the callback       *)
(* throws, the promise of reportProgress rejects and the await of it       *)
(* throws.                                                                 *)
(***************************************************************************)
Callbacks == {"returns", "throws", "throwsOnCompleted"}

\* onProgress?.(progress) throws
OnProgressThrows(progress) ==
  \/ onProgress = "throws"
  \/ onProgress = "throwsOnCompleted" /\ progress.completedQueries > 0

ReportProgress(c, update) ==
  [c EXCEPT !.progress = [f \in DOMAIN @ |-> IF f \in DOMAIN update THEN update[f] ELSE @[f]]]

NextCompletedFromIndex(c, j) == j

NextCompletedTwice(c, j) == c.progress.completedQueries + 2

NextCompleted(c, j) == c.progress.completedQueries + 1

(***************************************************************************)
(* Fan-in and promise settlement.                                          *)
(***************************************************************************)
AnyDone(c) == \E j \in 1..Len(c.br) : c.br[j].pc = "done"

AllDone(c) == \A j \in 1..Len(c.br) : c.br[j].pc = "done"

FinalResultNoSet(c) ==
  [ learnings |-> FlatMap[[j \in 1..Len(c.br) |-> c.br[j].res.learnings]],
    visitedUrls |-> FlatMap[[j \in 1..Len(c.br) |-> c.br[j].res.visitedUrls]] ]

FinalResult(c) ==
  [ learnings |-> Dedup[FlatMap[[j \in 1..Len(c.br) |-> c.br[j].res.learnings]]],
    visitedUrls |-> Dedup[FlatMap[[j \in 1..Len(c.br) |-> c.br[j].res.visitedUrls]]] ]

\* Promise.all resolves: call p returns finalResult; the branch of the
\* caller that returned the call's promise resolves with it, frees its slot,
\* and the caller's own Promise.all may resolve in turn.
RECURSIVE Resolve(_, _)
Resolve(cs, p) ==
  Eager([cs EXCEPT ![p].pc = "done", ![p].result = FinalResult(cs[p])], LAMBDA cs1 :
    IF p = <<>> THEN cs1
    ELSE Eager(StartNext([cs1 EXCEPT ![Front(p)].br[Last(p)].pc = "done",
                                     ![Front(p)].br[Last(p)].res = cs1[p].result], Front(p)),
               LAMBDA cs2 :
                 IF cs2[Front(p)].pc = "fanout" /\ AllDone(cs2[Front(p)])
                 THEN Resolve(cs2, Front(p)) ELSE cs2))

\* call p raises: the branch of the caller that returned the call's promise
\* (return deepResearch(...), not awaited inside the try) rejects, frees its
\* slot, and the caller's Promise.all rejects at once.
RECURSIVE Reject(_, _)
Reject(cs, p) ==
  Eager([cs EXCEPT ![p].pc = "failed"], LAMBDA cs1 :
    IF p = <<>> THEN cs1
    ELSE Eager(StartNext([cs1 EXCEPT ![Front(p)].br[Last(p)].pc = "rejected"], Front(p)),
               LAMBDA cs2 :
                 IF cs2[Front(p)].pc = "fanout" THEN Reject(cs2, Front(p)) ELSE cs2))

\* a branch of call p has returned: its slot goes to the next queued task
\* and Promise.all resolves when it was the last one
AfterBranch(cs, p) ==
  Eager(StartNext(cs, p), LAMBDA cs1 :
    IF cs1[p].pc = "fanout" /\ AllDone(cs1[p]) THEN Resolve(cs1, p) ELSE cs1)

(***************************************************************************)
(* Telemetry.  telemetry is the state of the Langfuse client: "off" when   *)
(* telemetry is disabled, "ok" when its calls succeed, "createFails" when  *)
(* creating a span raises, "updateFails" when updating a span raises.  A   *)
(* span is named by a sequence: <<0>> is the span of the caller of the     *)
(* top-level call, Append(p, j) the query span of branch j of call p, and  *)
(* <<>> stands for undefined.  spanWrites of a branch holds the spans the  *)
(* branch has updated.                                                     *)
(***************************************************************************)
TelemetryModes == {"ok", "createFails", "updateFails"}

CallerSpanId == <<0>>

\* querySpanId of branch j of call p: defined when the call has a trace and
\* a parent span and the span was created
QuerySpanId(cs, p, j) ==
  IF telemetry \in {"ok", "updateFails"} /\ cs[p].parentSpanId # <<>>
  THEN Append(p, j) ELSE <<>>

\* recursiveSpanId || parentSpanId
RecursiveSpanId(cs, p, j) ==
  IF QuerySpanId(cs, p, j) # <<>> THEN QuerySpanId(cs, p, j) ELSE cs[p].parentSpanId

\* telemetry.langfuse.span({id: querySpanId, update: true, ...}) raises
SpanUpdateThrows(cs, p, j) ==
  telemetry = "updateFails" /\ QuerySpanId(cs, p, j) # <<>>

\* telemetry.langfuse.span({id: querySpanId, update: true, ...}) returns
SpanUpdated(cs, p, j) ==
  IF QuerySpanId(cs, p, j) # <<>>
  THEN [cs EXCEPT ![p].br[j].spanWrites = @ \cup {QuerySpanId(cs, p, j)}]
  ELSE cs

\* the error span of the catch arm: an update of the span the call got from
\* its caller, in a try of its own
ErrorSpanUpdated(cs, p, j) ==
  IF telemetry \in {"ok", "createFails"} /\ cs[p].parentSpanId # <<>>
  THEN [cs EXCEPT ![p].br[j].spanWrites = @ \cup {cs[p].parentSpanId}]
  ELSE cs

\* the search of branch j of call p has returned these URLs
Fetched(cs, p, j, urls) ==
  [cs EXCEPT ![p].br[j].fetched = TRUE, ![p].br[j].newUrls = urls]

(***************************************************************************)
(* The three ways a branch leaves its try block.                           *)
(***************************************************************************)
TerminalDropsNew(cs, p, j, urls, lrn) ==
  LET c == cs[p]
      c1 == ReportProgress(c, [currentDepth |-> 0,
                               completedQueries |-> NextCompleted(c, j)])
      b1 == [c.br[j] EXCEPT !.pc = "done", !.reported = TRUE,
                            !.newUrls = urls, !.newLearnings = lrn,
                            !.res = [learnings |-> c.learnings,
                                     visitedUrls |-> c.visitedUrls]]
  IN AfterBranch(SpanUpdated([cs EXCEPT ![p] = [c1 EXCEPT !.br[j] = b1]], p, j), p)

\* the else arm: depth exhausted or no follow-up question.  Its update of
\* the query span cannot raise here: when updates raise, the update after
\* the search has raised before.
Terminal(cs, p, j, urls, lrn) ==
  LET c == cs[p]
      c1 == ReportProgress(c, [currentDepth |-> 0,
                               completedQueries |-> NextCompleted(c, j)])
      b1 == [c.br[j] EXCEPT !.pc = "done", !.reported = TRUE,
                            !.newUrls = urls, !.newLearnings = lrn,
                            !.res = [learnings |-> c.learnings \o lrn,
                                     visitedUrls |-> c.visitedUrls \o urls]]
  IN AfterBranch(SpanUpdated([cs EXCEPT ![p] = [c1 EXCEPT !.br[j] = b1]], p, j), p)

RecurseReleasesSlot(cs, p, j, urls, lrn) ==
  LET c == cs[p]
      c1 == ReportProgress(c, [currentDepth |-> NewDepth(c.depth),
                               currentBreadth |-> NewBreadth(c.breadth),
                               completedQueries |-> NextCompleted(c, j)])
      b1 == [c.br[j] EXCEPT !.pc = "recurse", !.reported = TRUE,
                            !.newUrls = urls, !.newLearnings = lrn]
      cs1 == StartNext([cs EXCEPT ![p] = [c1 EXCEPT !.br[j] = b1]], p)
  IN IF Len(p) < MaxPath
     THEN cs1 @@ (Append(p, j) :>
            [NewCall(NewDepth(c.depth), NewBreadth(c.breadth),
                     c.learnings \o lrn, c.visitedUrls \o urls)
               EXCEPT !.parentSpanId = RecursiveSpanId(cs, p, j)])
     ELSE cs1

RecurseShared(cs, p, j, urls, lrn) ==
  LET c == cs[p]
      c1 == ReportProgress(c, [currentDepth |-> NewDepth(c.depth),
                               currentBreadth |-> NewBreadth(c.breadth),
                               completedQueries |-> NextCompleted(c, j)])
      b1 == [c.br[j] EXCEPT !.pc = "recurse", !.reported = TRUE,
                            !.newUrls = urls, !.newLearnings = lrn]
      cs1 == [cs EXCEPT ![p] = [c1 EXCEPT !.br[j] = b1]]
      seenLearnings == FlatMap[[k \in 1..Len(c.br) |-> c.br[k].newLearnings]]
      seenUrls == FlatMap[[k \in 1..Len(c.br) |-> c.br[k].newUrls]]
  IN IF Len(p) < MaxPath
     THEN cs1 @@ (Append(p, j) :>
            [NewCall(NewDepth(c.depth), NewBreadth(c.breadth),
                     c.learnings \o seenLearnings \o lrn,
                     c.visitedUrls \o seenUrls \o urls)
               EXCEPT !.parentSpanId = RecursiveSpanId(cs, p, j)])
     ELSE cs1

\* the then arm: the branch returns the promise of a recursive call, which
\* runs up to its first await, the planner call.  A call nested deeper than
\* MaxPath is outside the model and its branch stays pending.
Recurse(cs, p, j, urls, lrn) ==
  LET c == cs[p]
      c1 == ReportProgress(c, [currentDepth |-> NewDepth(c.depth),
                               currentBreadth |-> NewBreadth(c.breadth),
                               completedQueries |-> NextCompleted(c, j)])
      b1 == [c.br[j] EXCEPT !.pc = "recurse", !.reported = TRUE,
                            !.newUrls = urls, !.newLearnings = lrn]
      cs1 == [cs EXCEPT ![p] = [c1 EXCEPT !.br[j] = b1]]
  IN IF Len(p) < MaxPath
     THEN cs1 @@ (Append(p, j) :>
            [NewCall(NewDepth(c.depth), NewBreadth(c.breadth),
                     c.learnings \o lrn, c.visitedUrls \o urls)
               EXCEPT !.parentSpanId = RecursiveSpanId(cs, p, j)])
     ELSE cs1

Uncaught(cs, p, j) ==
  Reject([cs EXCEPT ![p].br[j].pc = "rejected", ![p].br[j].failed = TRUE], p)

\* the catch arm: the error goes to a span, the incoming accumulators are
\* returned, nothing is reported
Caught(cs, p, j) ==
  LET c == cs[p]
      b1 == [c.br[j] EXCEPT !.pc = "done", !.failed = TRUE,
                            !.res = [learnings |-> c.learnings,
                                     visitedUrls |-> c.visitedUrls]]
  IN AfterBranch(ErrorSpanUpdated([cs EXCEPT ![p].br[j] = b1], p, j), p)

ContinueWhileDepth(cs, p, j, urls, lrn, followUp) ==
  IF cs[p].depth > 0 /\ followUp
  THEN Recurse([cs EXCEPT ![p].br[j].followUp = followUp], p, j, urls, lrn)
  ELSE Terminal([cs EXCEPT ![p].br[j].followUp = followUp], p, j, urls, lrn)

ContinueIgnoringFollowUp(cs, p, j, urls, lrn, followUp) ==
  IF NewDepth(cs[p].depth) > 0
  THEN Recurse([cs EXCEPT ![p].br[j].followUp = followUp], p, j, urls, lrn)
  ELSE Terminal([cs EXCEPT ![p].br[j].followUp = followUp], p, j, urls, lrn)

\* await reportProgress(...) of either arm throws inside the try: the
\* progress object has been assigned, and the branch takes the catch arm
ReportProgressThrows(cs, p, j, urls, lrn, followUp) ==
  LET c == cs[p]
      update == IF NewDepth(c.depth) > 0 /\ followUp
                THEN [currentDepth |-> NewDepth(c.depth),
                      currentBreadth |-> NewBreadth(c.breadth),
                      completedQueries |-> NextCompleted(c, j)]
                ELSE [currentDepth |-> 0,
                      completedQueries |-> NextCompleted(c, j)]
      c1 == ReportProgress(c, update)
      b1 == [c.br[j] EXCEPT !.followUp = followUp,
                            !.newUrls = urls, !.newLearnings = lrn]
  IN Caught([cs EXCEPT ![p] = [c1 EXCEPT !.br[j] = b1]], p, j)

\* lines 390-468: accumulate, then recurse or return
Continue(cs, p, j, urls, lrn, followUp) ==
  IF OnProgressThrows([completedQueries |-> NextCompleted(cs[p], j)])
  THEN ReportProgressThrows(cs, p, j, urls, lrn, followUp)
  ELSE IF NewDepth(cs[p].depth) > 0 /\ followUp
  THEN Recurse([cs EXCEPT ![p].br[j].followUp = followUp], p, j, urls, lrn)
  ELSE Terminal([cs EXCEPT ![p].br[j].followUp = followUp], p, j, urls, lrn)

ProcessSerpResultThrows(cs, p, j) ==
  Caught([cs EXCEPT ![p].br[j].extractFailed = TRUE], p, j)

\* processSerpResult catches the error of generateObject and returns no
\* learning and no follow-up question; the branch goes on with the URLs of
\* the search
ProcessSerpResultCatch(cs, p, j) ==
  Continue([cs EXCEPT ![p].br[j].extractFailed = TRUE], p, j,
           cs[p].br[j].newUrls, <<>>, FALSE)

(***************************************************************************)
(* Actions.                                                                *)
(***************************************************************************)
\* generateSerpQueries raises: nothing catches it in deepResearch
PlanFails(p) ==
  /\ calls[p].pc = "plan"
  /\ calls' = Reject(calls, p)
  /\ UNCHANGED sink
  /\ UNCHANGED outside

PlanReturnsSharedLimit(p, r) ==
  /\ calls[p].pc = "plan"
  /\ LET n == SliceLen(r, calls[p].breadth)
         c1 == ReportProgress(calls[p], [totalQueries |-> n])
         busy == Cardinality({ x \in (DOMAIN calls) \X (1..MaxRaw) :
                                 x[2] \in InFlight(calls[x[1]]) })
         cs1 == [calls EXCEPT ![p] = [c1 EXCEPT !.pc = "fanout",
                   !.br = [j \in 1..n |-> NewBranch(j <= concurrencyLimit - busy)]]]
     IN /\ calls' = IF n = 0 THEN Resolve(cs1, p) ELSE cs1
        /\ sink' = <<c1.progress>>
  /\ UNCHANGED outside

\* generateSerpQueries returns the first breadth of the r queries of the
\* model; await reportProgress(...) follows outside any try, so that the call
\* raises when the callback throws
PlanReturns(p, r) ==
  /\ calls[p].pc = "plan"
  /\ LET n == SliceLen(r, calls[p].breadth)
         c1 == ReportProgress(calls[p], [totalQueries |-> n])
         cs1 == [calls EXCEPT ![p] = [c1 EXCEPT !.pc = "fanout", !.br = Schedule(n)]]
     IN /\ calls' = IF OnProgressThrows(c1.progress) THEN Reject([calls EXCEPT ![p] = c1], p)
                    ELSE IF n = 0 THEN Resolve(cs1, p) ELSE cs1
        /\ sink' = <<c1.progress>>
  /\ UNCHANGED outside

FetchFailsRetry(p, j) ==
  /\ j \in 1..Len(calls[p].br)
  /\ calls[p].br[j].pc = "fetch"
  /\ calls[p].br[j].fetches < 2
  /\ calls' = [calls EXCEPT ![p].br[j].fetches = @ + 1]
  /\ UNCHANGED sink
  /\ UNCHANGED outside

\* firecrawl.search raises or times out
FetchFails(p, j) ==
  /\ j \in 1..Len(calls[p].br)
  /\ calls[p].br[j].pc = "fetch"
  /\ calls' = Caught(calls, p, j)
  /\ UNCHANGED sink
  /\ UNCHANGED outside

\* firecrawl.search returns and the query span is updated, outside any try
\* of its own; without any content processSerpResult returns the empty
\* result without calling the model
FetchReturns(p, j, a) ==
  /\ j \in 1..Len(calls[p].br)
  /\ calls[p].br[j].pc = "fetch"
  /\ a.ok
  /\ IF SpanUpdateThrows(calls, p, j)
     THEN /\ calls' = Caught(Fetched(calls, p, j, a.urls), p, j)
          /\ UNCHANGED sink
     ELSE IF a.content
     THEN /\ calls' = [SpanUpdated(Fetched(calls, p, j, a.urls), p, j)
                        EXCEPT ![p].br[j].pc = "extract", ![p].br[j].extracts = @ + 1]
          /\ UNCHANGED sink
     ELSE /\ calls' = Continue([SpanUpdated(Fetched(calls, p, j, a.urls), p, j)
                                 EXCEPT ![p].br[j].extracts = @ + 1],
                               p, j, a.urls, <<>>, FALSE)
          /\ sink' = <<calls'[p].progress>>
  /\ UNCHANGED outside

\* generateObject of processSerpResult returns or raises; processSerpResult
\* catches the error and returns the empty result
ExtractReturns(p, j, a) ==
  /\ j \in 1..Len(calls[p].br)
  /\ calls[p].br[j].pc = "extract"
  /\ calls' = IF a.ok
              THEN Continue(calls, p, j, calls[p].br[j].newUrls, a.learnings, a.followUp)
              ELSE ProcessSerpResultCatch(calls, p, j)
  /\ sink' = <<calls'[p].progress>>
  /\ UNCHANGED outside

Next ==
  \/ \E p \in DOMAIN calls : PlanFails(p)
  \/ \E p \in DOMAIN calls, r \in 0..MaxRaw : PlanReturns(p, r)
  \/ \E p \in DOMAIN calls, j \in 1..MaxRaw : FetchFails(p, j)
  \/ \E p \in DOMAIN calls, j \in 1..MaxRaw, a \in FetchAnswers : FetchReturns(p, j, a)
  \/ \E p \in DOMAIN calls, j \in 1..MaxRaw, a \in ExtractAnswers : ExtractReturns(p, j, a)

Spec == Init /\ [][Next]_vars

\* every awaited external call eventually returns or fails; the behaviours
\* are those of the top-level calls of breadth 0 to MaxLiveBreadth
InitLive == Init /\ calls[<<>>].breadth \in 0..MaxLiveBreadth

FairSpec == InitLive /\ [][Next]_vars /\ WF_vars(Next)

\* the top-level calls that runResearch makes with telemetry enabled: the
\* call gets a trace and the span of its caller
InitTelemetry ==
  /\ \E d \in 0..MaxDepth, b \in 0..MaxLiveBreadth, acc \in InitialAccumulators :
       /\ TreeSize(d, b) <= MaxBranches
       /\ calls = (<<>> :> [NewCall(d, b, acc.learnings, acc.visitedUrls)
                             EXCEPT !.parentSpanId = CallerSpanId])
  /\ sink = <<>>
  /\ telemetry \in TelemetryModes
  /\ EngineOnly

TelemetrySpec == InitTelemetry /\ [][Next]_vars

\* the top-level calls with a callback of each kind
InitSink ==
  /\ \E d \in 0..MaxDepth, b \in 0..MaxLiveBreadth, acc \in InitialAccumulators :
       /\ TreeSize(d, b) <= MaxBranches
       /\ calls = (<<>> :> NewCall(d, b, acc.learnings, acc.visitedUrls))
  /\ sink = <<>>
  /\ onProgress \in Callbacks
  /\ telemetry = "off"
  /\ nextQuery = NoNextQuery
  /\ trace = {}
  /\ updates = <<>>
  /\ NoApi

SinkSpec == InitSink /\ [][Next]_vars

\* the top-level call of the service with the default parameters
InitDefault ==
  /\ calls = (<<>> :> NewCall(defaultDepth, defaultBreadth, <<>>, <<>>))
  /\ sink = <<>>
  /\ telemetry = "off"
  /\ EngineOnly

\* the behaviours in which no external call fails: the planner returns at
\* least breadth queries, every search has content and every extraction
\* returns one learning, with or without follow-up questions
NextSuccess ==
  \/ \E p \in DOMAIN calls : PlanReturns(p, MaxRaw)
  \/ \E p \in DOMAIN calls, j \in 1..MaxRaw, a \in {x \in FetchAnswers : x.content} :
       FetchReturns(p, j, a)
  \/ \E p \in DOMAIN calls, j \in 1..MaxRaw,
         a \in {x \in ExtractAnswers : x.ok /\ x.learnings = <<"a">>} :
       ExtractReturns(p, j, a)

\* the default call when no external call fails and each of them returns
FairSuccessSpec == InitDefault /\ [][NextSuccess]_vars /\ WF_vars(NextSuccess)

SuccessSpec == (Init \/ InitDefault) /\ [][NextSuccess]_vars

(***************************************************************************)
(* Properties.                                                             *)
(***************************************************************************)
Settled(c) == c.pc \in {"done", "failed"}

BranchesFinished(c) ==
  /\ c.pc \in {"fanout", "done", "failed"}
  /\ \A j \in 1..Len(c.br) : c.br[j].pc \in {"done", "rejected"}

\* C1: under the assumption that every planner, fetcher and extractor call
\* eventually returns or fails, the top-level call eventually terminates:
\* its promise settles, the recursion does not go on for ever.
C1_Terminates == <>Settled(calls[<<>>])

C1_Witness ==
  /\ calls[<<>>].pc = "done"
  /\ \E p \in DOMAIN calls : Len(p) = 2 /\ calls[p].pc = "done"

\* C2: a planner failure is non-fatal: no call, top-level or recursive,
\* ever raises.
C2_NoCallRaises == \A p \in DOMAIN calls : calls[p].pc # "failed"

\* C3: when the fetcher failed for one branch of a fan-out, every learning
\* extracted by the other branches is in the result the call returns.
C3_FaultIsolation ==
  \A p \in DOMAIN calls :
    LET c == calls[p]
    IN (c.pc = "done" /\ \E j \in 1..Len(c.br) : c.br[j].failed)
       => \A k \in 1..Len(c.br) :
            ~c.br[k].failed
            => Range(c.br[k].newLearnings) \subseteq Range(c.result.learnings)

\* C4: the learnings and URLs a call returns contain the learnings and URLs
\* it was given.
C4_AccumulatorsKept ==
  \A p \in DOMAIN calls :
    calls[p].pc = "done"
    => /\ Range(calls[p].learnings) \subseteq Range(calls[p].result.learnings)
       /\ Range(calls[p].visitedUrls) \subseteq Range(calls[p].result.visitedUrls)

\* C5: a call whose planner returned no query spawns no branch and returns
\* exactly the learnings and URLs it was given.
C5_EmptyPlanReturnsInput ==
  \A p \in DOMAIN calls :
    (calls[p].pc = "done" /\ calls[p].progress.totalQueries = 0)
    => /\ calls[p].br = <<>>
       /\ calls[p].result.learnings = calls[p].learnings
       /\ calls[p].result.visitedUrls = calls[p].visitedUrls

\* C6: at every moment, at most concurrencyLimit branches of one call have
\* started and not yet finished.
C6_AtMostLimitInFlight ==
  \A p \in DOMAIN calls : Cardinality(InFlight(calls[p])) <= concurrencyLimit

C6_Witness ==
  \E p \in DOMAIN calls :
    /\ Len(calls[p].br) > concurrencyLimit
    /\ Cardinality(InFlight(calls[p])) = concurrencyLimit
    /\ calls[p].br[Len(calls[p].br)].pc = "fetch"
    /\ \E j \in 1..Len(calls[p].br) : calls[p].br[j].pc = "done"

\* C7: the successive completedQueries values the sink receives, from the
\* top-level call and all its recursive calls, never decrease.
C7_SinkNeverDecreases ==
  [][(sink # <<>> /\ sink' # <<>>)
       => sink'[1].completedQueries >= sink[1].completedQueries]_vars

\* C8: once all branches of a call have finished, failed fetches included,
\* its completedQueries equals its totalQueries.
C8_FinishedMeansAllCompleted ==
  \A p \in DOMAIN calls :
    BranchesFinished(calls[p])
    => calls[p].progress.completedQueries = calls[p].progress.totalQueries

\* C9: after k branches of a call have made their completion report, in any
\* order, the call's completedQueries is k.
C9_NoLostIncrement ==
  \A p \in DOMAIN calls :
    calls[p].progress.completedQueries
      = Cardinality({ j \in 1..Len(calls[p].br) : calls[p].br[j].reported })

C9_Witness ==
  \E p \in DOMAIN calls :
    /\ calls[p].progress.completedQueries = 2
    /\ ~calls[p].br[1].reported
    /\ calls[p].br[2].reported /\ calls[p].br[3].reported

\* C10: the learnings and the URLs a call returns contain no string twice
\* and are the union of what its branches returned.
C10_ResultIsDedupedUnion ==
  \A p \in DOMAIN calls :
    LET c == calls[p]
    IN c.pc = "done"
       => /\ NoDuplicates(c.result.learnings)
          /\ NoDuplicates(c.result.visitedUrls)
          /\ Range(c.result.learnings)
               = UNION { Range(c.br[j].res.learnings) : j \in 1..Len(c.br) }
          /\ Range(c.result.visitedUrls)
               = UNION { Range(c.br[j].res.visitedUrls) : j \in 1..Len(c.br) }

C10_Witness ==
  \E p \in DOMAIN calls :
    LET c == calls[p]
    IN /\ c.pc = "done"
       /\ Len(c.br) >= 2
       /\ c.br[1].res.learnings = <<"a", "b">>
       /\ c.br[2].res.learnings = <<"a">>
       /\ c.result.learnings = <<"a", "b">>
       /\ c.result.visitedUrls = <<"u">>
       /\ Len(FlatMap[[j \in 1..Len(c.br) |-> c.br[j].res.visitedUrls]]) >= 2

(***************************************************************************)
(* Order independence, recursion depth and breadth.                        *)
(***************************************************************************)
\* what call p returns for the answers its branches got, computed from the
\* answers alone: the fetched URLs (f = "newUrls") or the extracted
\* learnings (f = "newLearnings") recorded in the branches, whether a branch
\* was caught, and whether it recursed.  inc is the set that came in.
RECURSIVE Expected(_, _, _)
Expected(p, inc, f) ==
  UNION { LET b == calls[p].br[j]
              acc == inc \cup Range(b[f])
          IN IF b.failed THEN inc
             ELSE IF Append(p, j) \in DOMAIN calls THEN Expected(Append(p, j), acc, f)
             ELSE acc : j \in 1..Len(calls[p].br) }

\* C11: for fixed planner, fetcher and extractor answers the sets of
\* learnings and URLs a call returns do not depend on the order in which
\* its branches ran: they are a function of the answers alone.
C11_OrderIndependent ==
  \A p \in DOMAIN calls :
    calls[p].pc = "done" =>
      /\ Range(calls[p].result.learnings)
           = Expected(p, Range(calls[p].learnings), "newLearnings")
      /\ Range(calls[p].result.visitedUrls)
           = Expected(p, Range(calls[p].visitedUrls), "newUrls")

C11_Witness ==
  /\ calls[<<>>].pc = "done"
  /\ Len(calls[<<>>].br) >= 2
  /\ <<1>> \in DOMAIN calls
  /\ ~ calls[<<>>].br[2].failed /\ calls[<<>>].br[2].newLearnings = <<"b">>
  /\ {"a", "b"} \subseteq Range(calls[<<>>].result.learnings)

\* the branches that returned without a recursive call although the
\* extractor had returned a follow-up question: the leaves of the paths on
\* which every extraction returned one
FollowUpLeaves ==
  { <<p, j>> \in { <<q, k>> \in (DOMAIN calls) \X (1..MaxRaw) : k <= Len(calls[q].br) } :
      /\ calls[p].br[j].followUp
      /\ Append(p, j) \notin DOMAIN calls }

\* C12 (as stated): when every extraction returns a follow-up question, the
\* number of recursive calls along a path is the initial depth.
C12_CountIsDepth ==
  \A x \in FollowUpLeaves : Len(x[1]) = calls[<<>>].depth

\* C12 (amended): a branch whose extraction returned a follow-up question
\* recurses exactly when fewer than depth - 1 recursive calls lead to its
\* call, so the number of recursive calls along a path is depth - 1 when
\* every extraction returns one (and 0 for depth 0), and never more.
C12_RecursionCount ==
  /\ \A p \in DOMAIN calls : Len(p) <= Max(calls[<<>>].depth - 1, 0)
  /\ \A p \in DOMAIN calls : \A j \in 1..Len(calls[p].br) :
       calls[p].br[j].followUp =>
         (Append(p, j) \in DOMAIN calls <=> Len(p) < calls[<<>>].depth - 1)
  /\ \A x \in FollowUpLeaves : Len(x[1]) = Max(calls[<<>>].depth - 1, 0)

C12_Witness ==
  /\ calls[<<>>].depth = MaxDepth
  /\ \E x \in FollowUpLeaves : Len(x[1]) = MaxDepth - 1

\* C13: a recursive call gets the depth of its caller less one, and is made
\* only when that is positive and the extractor returned a follow-up
\* question; the call with depth 2 and breadth 4 fans out to 4 branches,
\* each branch with a follow-up question starts a call of depth 1 and
\* breadth 2, and no call is started below those.
C13_DepthOfRecursiveCall ==
  /\ \A p \in DOMAIN calls :
       p # <<>> =>
         /\ calls[p].depth = calls[Front(p)].depth - 1
         /\ calls[p].depth > 0
         /\ calls[Front(p)].br[Last(p)].followUp
  /\ (calls[<<>>].depth = 2 /\ calls[<<>>].breadth = 4) =>
       /\ \A p \in DOMAIN calls : Len(p) <= 1
       /\ \A p \in DOMAIN calls : Len(p) = 1 => calls[p].breadth = 2 /\ calls[p].depth = 1
       /\ calls[<<>>].pc # "plan" => Len(calls[<<>>].br) = 4
       /\ \A j \in 1..Len(calls[<<>>].br) :
            calls[<<>>].br[j].followUp => <<j>> \in DOMAIN calls

C13_Witness ==
  /\ calls[<<>>].depth = 2 /\ calls[<<>>].breadth = 4
  /\ calls[<<>>].pc = "done"
  /\ \A j \in 1..4 : <<j>> \in DOMAIN calls /\ calls[<<j>>].pc = "done"
                     /\ Len(calls[<<j>>].br) = 2
                     /\ \A k \in 1..2 : calls[<<j>>].br[k].followUp

\* Math.ceil applied k times
RECURSIVE Halved(_, _)
Halved(breadth, k) == IF k = 0 THEN breadth ELSE NewBreadth(Halved(breadth, k - 1))

\* C14: for a breadth b > 0 the recursive call gets the least n with
\* 2n >= b; along a path the breadth never grows, never drops below 1, is 1
\* below a call of breadth 1, and is 1 from some level on.
C14_BreadthHalves ==
  /\ \A p \in DOMAIN calls :
       (p # <<>> /\ calls[Front(p)].breadth > 0) =>
         /\ 2 * calls[p].breadth >= calls[Front(p)].breadth
         /\ 2 * (calls[p].breadth - 1) < calls[Front(p)].breadth
         /\ calls[p].breadth <= calls[Front(p)].breadth
         /\ calls[p].breadth >= 1
         /\ calls[Front(p)].breadth = 1 => calls[p].breadth = 1
  /\ calls[<<>>].breadth > 0 =>
       \E k \in 0..calls[<<>>].breadth :
         \A m \in k..(calls[<<>>].breadth + MaxDepth) : Halved(calls[<<>>].breadth, m) = 1

C14_Witness ==
  \E p \in DOMAIN calls :
    /\ Len(p) = 2
    /\ calls[<<>>].breadth = 2
    /\ calls[Front(p)].breadth = 1
    /\ calls[p].breadth = 1

(***************************************************************************)
(* Depth 0, failures, progress bounds, retries, negative breadth.          *)
(***************************************************************************)
\* C15: a call with depth 0 makes one planner call and never a recursive
\* call, with or without follow-up questions; once the planner has returned
\* none of its branches rejects and the call returns when they are
\* finished; and when its two planned queries were both fetched and
\* extracted, the result holds the learnings of both.
C15_DepthZero ==
  calls[<<>>].depth = 0 =>
    /\ calls[<<>>].plans = 1
    /\ DOMAIN calls = {<<>>}
    /\ \A j \in 1..Len(calls[<<>>].br) : calls[<<>>].br[j].pc \notin {"recurse", "rejected"}
    /\ Len(calls[<<>>].br) > 0 /\ BranchesFinished(calls[<<>>]) => calls[<<>>].pc = "done"
    /\ ( /\ calls[<<>>].pc = "done"
         /\ Len(calls[<<>>].br) = 2
         /\ \A j \in 1..2 : /\ ~ calls[<<>>].br[j].failed
                            /\ ~ calls[<<>>].br[j].extractFailed
                            /\ calls[<<>>].br[j].extracts = 1 )
       => Range(calls[<<>>].result.learnings)
            = Range(calls[<<>>].learnings)
                \cup Range(calls[<<>>].br[1].newLearnings)
                \cup Range(calls[<<>>].br[2].newLearnings)

C15_Witness ==
  /\ calls[<<>>].depth = 0
  /\ calls[<<>>].breadth = 2
  /\ calls[<<>>].pc = "done"
  /\ Len(calls[<<>>].br) = 2
  /\ \A j \in 1..2 : calls[<<>>].br[j].followUp /\ calls[<<>>].br[j].extracts = 1
  /\ calls[<<>>].br[1].newLearnings = <<"a">>
  /\ calls[<<>>].br[2].newLearnings = <<"b">>
  /\ calls[<<>>].result.learnings = <<"a", "b">>

\* every planned query of call c had its search fail
AllFetchesFailed(c) ==
  /\ Len(c.br) > 0
  /\ \A j \in 1..Len(c.br) : c.br[j].failed /\ c.br[j].extracts = 0

\* C16: a call started with empty accumulators whose searches all fail
\* returns empty learnings and empty visitedUrls, and does not raise.
C16_AllFetchesFail ==
  \A p \in DOMAIN calls :
    (calls[p].learnings = <<>> /\ calls[p].visitedUrls = <<>> /\ AllFetchesFailed(calls[p])) =>
      /\ calls[p].pc = "done"
      /\ calls[p].result = [learnings |-> <<>>, visitedUrls |-> <<>>]

C16_Witness ==
  /\ calls[<<>>].learnings = <<>> /\ calls[<<>>].visitedUrls = <<>>
  /\ Len(calls[<<>>].br) > concurrencyLimit
  /\ AllFetchesFailed(calls[<<>>])
  /\ calls[<<>>].pc = "done"

\* the branches whose extraction failed
ExtractFailures ==
  { <<p, j>> \in { <<q, k>> \in (DOMAIN calls) \X (1..MaxRaw) : k <= Len(calls[q].br) } :
      calls[p].br[j].extractFailed }

C18_SnapshotBounds ==
  (calls[<<>>].breadth >= 1 /\ sink # <<>>) =>
    /\ 0 <= sink[1].currentDepth /\ sink[1].currentDepth <= sink[1].totalDepth
    /\ 0 <= sink[1].currentBreadth /\ sink[1].currentBreadth <= sink[1].totalBreadth
    /\ 0 <= sink[1].completedQueries /\ sink[1].completedQueries <= sink[1].totalQueries

C18_Witness ==
  /\ calls[<<>>].breadth >= 1
  /\ sink # <<>>
  /\ sink[1].totalQueries >= 2
  /\ sink[1].completedQueries = sink[1].totalQueries
  /\ sink[1].currentDepth = 0 /\ sink[1].totalDepth > 0
  /\ sink[1].currentBreadth < sink[1].totalBreadth

\* C19: a call makes one planner call, and each of its planned queries is
\* searched at most once and extracted at most once, whatever fails.
C19_NoRetry ==
  \A p \in DOMAIN calls :
    /\ calls[p].plans = 1
    /\ \A j \in 1..Len(calls[p].br) :
         /\ calls[p].br[j].fetches = (IF calls[p].br[j].pc = "queued" THEN 0 ELSE 1)
         /\ calls[p].br[j].extracts <= 1

C19_Witness ==
  /\ calls[<<>>].pc = "done"
  /\ \E j, k \in 1..Len(calls[<<>>].br) :
       /\ calls[<<>>].br[j].failed /\ calls[<<>>].br[j].fetches = 1
       /\ calls[<<>>].br[k].extractFailed /\ calls[<<>>].br[k].extracts = 1

\* C20: a call with a negative breadth raises: it runs no branch and
\* returns no result.
C20_NegativeBreadthIsFatal ==
  calls[<<>>].breadth < 0 =>
    /\ calls[<<>>].br = <<>>
    /\ calls[<<>>].pc # "done"

(***************************************************************************)
(* Failing recursive calls, the moment of the increment, the limiter over  *)
(* the tree, and the accumulators handed down.                             *)
(***************************************************************************)
\* C21: when a recursive call raises, the branch that made it returns its
\* incoming accumulators and the caller does not raise.
C21_ChildFailureCaught ==
  \A p \in DOMAIN calls :
    (p # <<>> /\ calls[p].pc = "failed") =>
      /\ calls[Front(p)].pc # "failed"
      /\ calls[Front(p)].br[Last(p)].pc = "done"
      /\ calls[Front(p)].br[Last(p)].res
           = [learnings |-> calls[Front(p)].learnings,
              visitedUrls |-> calls[Front(p)].visitedUrls]

\* C22: a branch whose increment of completedQueries has been published has
\* finished, its recursive call included; so a call whose progress has
\* completedQueries = totalQueries has all its branches finished.
C22_ReportedMeansFinished ==
  \A p \in DOMAIN calls :
    /\ \A j \in 1..Len(calls[p].br) :
         calls[p].br[j].reported => calls[p].br[j].pc \in {"done", "rejected"}
    /\ (calls[p].pc # "plan"
        /\ calls[p].progress.completedQueries = calls[p].progress.totalQueries)
       => BranchesFinished(calls[p])

\* the branches of the whole tree that are waiting for a search or an
\* extraction
Running ==
  { x \in (DOMAIN calls) \X (1..MaxRaw) :
      /\ x[2] <= Len(calls[x[1]].br)
      /\ calls[x[1]].br[x[2]].pc \in {"fetch", "extract"} }

\* the branches of call c that have not settled
Unsettled(c) == { j \in 1..Len(c.br) : c.br[j].pc \notin {"done", "rejected"} }

\* C25: each call has a limiter of its own: whatever runs elsewhere in the
\* tree, a call that has fanned out has concurrencyLimit branches started
\* and unfinished, or all its unsettled branches when they are fewer.  (The
\* witness has more than concurrencyLimit branches of the tree waiting for a
\* search or an extraction at once.)
C25_LimitPerInvocation ==
  \A p \in DOMAIN calls :
    calls[p].pc # "plan" =>
      Cardinality(InFlight(calls[p]))
        = Min(concurrencyLimit, Cardinality(Unsettled(calls[p])))

C25_Witness ==
  /\ Cardinality(Running) > concurrencyLimit
  /\ Cardinality({ j \in 1..Len(calls[<<>>].br) : calls[<<>>].br[j].pc = "recurse" }) >= 2

\* C26: a branch keeps its slot while its recursive call runs: as long as a
\* branch of a call is queued, concurrencyLimit branches of that call are
\* started and unfinished, recursing ones included; and the queue of the
\* top-level call eventually empties, every queued branch having started.
C26_SlotHeldWhileRecursing ==
  /\ [](\A p \in DOMAIN calls :
          /\ Cardinality(InFlight(calls[p])) <= concurrencyLimit
          /\ Queued(calls[p]) # {} => Cardinality(InFlight(calls[p])) = concurrencyLimit)
  /\ (Queued(calls[<<>>]) # {}) ~> (Queued(calls[<<>>]) = {})

C26_Witness ==
  /\ Queued(calls[<<>>]) # {}
  /\ \A j \in InFlight(calls[<<>>]) :
       /\ calls[<<>>].br[j].pc = "recurse"
       /\ calls[<<j>>].pc = "fanout"

\* C27: the accumulators of a call are never modified, and a recursive call
\* gets the accumulators of its caller followed by the new learnings and
\* URLs of the branch that made it, and nothing of the other branches.
C27_AccumulatorsByValue ==
  /\ [](\A p \in DOMAIN calls :
          p # <<>> =>
            /\ calls[p].learnings
                 = calls[Front(p)].learnings \o calls[Front(p)].br[Last(p)].newLearnings
            /\ calls[p].visitedUrls
                 = calls[Front(p)].visitedUrls \o calls[Front(p)].br[Last(p)].newUrls)
  /\ [][\A p \in DOMAIN calls :
          /\ calls'[p].learnings = calls[p].learnings
          /\ calls'[p].visitedUrls = calls[p].visitedUrls]_vars

C27_Witness ==
  /\ {<<1>>, <<2>>} \subseteq DOMAIN calls
  /\ calls[<<>>].learnings = <<>>
  /\ calls[<<>>].br[1].newLearnings = <<"a">>
  /\ calls[<<>>].br[2].newLearnings = <<"b">>
  /\ calls[<<1>>].learnings = <<"a">>
  /\ calls[<<2>>].learnings = <<"b">>
  /\ calls[<<1>>].pc = "done"

\* C28: the accumulators a branch passes to its recursive call never hold
\* the same string twice (the top-level inputs of the model hold none twice).
C28_NoDuplicateAccumulators ==
  \A p \in DOMAIN calls :
    NoDuplicates(calls[p].learnings) /\ NoDuplicates(calls[p].visitedUrls)

(***************************************************************************)
(* Telemetry.                                                              *)
(***************************************************************************)
\* C23: a failing telemetry call changes neither the control flow nor the
\* result: as with telemetry disabled, a branch whose search returned does
\* not take the catch arm, and when it returns without recursing it returns
\* the incoming URLs followed by the URLs of its search.
C23_TelemetryNeverMatters ==
  \A p \in DOMAIN calls : \A j \in 1..Len(calls[p].br) :
    calls[p].br[j].fetched =>
      /\ ~ calls[p].br[j].failed
      /\ (calls[p].br[j].pc = "done" /\ Append(p, j) \notin DOMAIN calls) =>
           calls[p].br[j].res.visitedUrls = calls[p].visitedUrls \o calls[p].br[j].newUrls

\* C24: a branch never updates the span its call got from its caller.
C24_ParentSpanUntouched ==
  \A p \in DOMAIN calls : \A j \in 1..Len(calls[p].br) :
    calls[p].parentSpanId \notin calls[p].br[j].spanWrites

(***************************************************************************)
(* The Progress Sink.                                                      *)
(***************************************************************************)
\* C31: what onProgress does changes neither the control flow nor the
\* result: as with a callback that returns, a call that the planner
\* answered does not raise before it has run a branch, a branch whose
\* search returned does not take the catch arm, and when it returns without
\* recursing it returns the incoming learnings followed by its own.
C31_SinkNeverMatters ==
  /\ \A p \in DOMAIN calls :
       (calls[p].pc = "failed" /\ calls[p].br = <<>>) =>
         calls[p].progress.totalQueries = 0 /\ (p = <<>> => sink = <<>>)
  /\ \A p \in DOMAIN calls : \A j \in 1..Len(calls[p].br) :
       calls[p].br[j].fetched =>
         /\ ~ calls[p].br[j].failed
         /\ (calls[p].br[j].pc = "done" /\ Append(p, j) \notin DOMAIN calls) =>
              calls[p].br[j].res.learnings
                = calls[p].learnings \o calls[p].br[j].newLearnings

(***************************************************************************)
(* The query of a recursive call (lines 406-411).  A text is a sequence   *)
(* of characters; the fixed parts of the template are one character each, *)
(* none of them white space.                                              *)
(***************************************************************************)
MaxQuestions == 2

GoalLabel == "Previous research goal: "

DirectionsLabel == "Follow-up research directions:"

IsSpace(ch) == ch \in {" ", "\n"}

Goals == { <<"g">>, <<"g", " ", "h">>, <<" ", "g">>, <<"g", "\n">> }

Questions == { <<"q">>, <<"q", " ", "r">>, <<"q", " ">>, <<"r">> }

\* String.prototype.trim
RECURSIVE TrimEnd(_)
TrimEnd(s) == IF s # <<>> /\ IsSpace(Last(s)) THEN TrimEnd(Front(s)) ELSE s

RECURSIVE TrimStart(_)
TrimStart(s) == IF s # <<>> /\ IsSpace(Head(s)) THEN TrimStart(Tail(s)) ELSE s

Trim(s) == TrimStart(TrimEnd(s))

\* lines.join('\n')
RECURSIVE Join(_)
Join(lines) ==
  IF lines = <<>> THEN <<>>
  ELSE IF Len(lines) = 1 THEN lines[1]
  ELSE Join(Front(lines)) \o <<"\n">> \o Last(lines)

NextQueryWithoutGoal(researchGoal, followUpQuestions) ==
  Trim(<<"\n", DirectionsLabel, "\n">>
       \o Join([i \in 1..Len(followUpQuestions) |-> <<"-", " ">> \o followUpQuestions[i]])
       \o <<"\n">>)

\* the template literal of nextQuery, trimmed
NextQuery(researchGoal, followUpQuestions) ==
  Trim(<<"\n", GoalLabel>> \o researchGoal \o <<"\n", DirectionsLabel, "\n">>
       \o Join([i \in 1..Len(followUpQuestions) |-> <<"-", " ">> \o followUpQuestions[i]])
       \o <<"\n">>)

\* a branch with a goal and at least one follow-up question is about to
\* recurse
InitQuery ==
  /\ calls = (<<>> :> NewCall(defaultDepth, defaultBreadth, <<>>, <<>>))
  /\ sink = <<>>
  /\ onProgress = "returns"
  /\ telemetry = "off"
  /\ trace = {}
  /\ updates = <<>>
  /\ NoApi
  /\ \E g \in Goals, n \in 1..MaxQuestions :
       \E qs \in [1..n -> Questions] :
         nextQuery = [goal |-> g, followUpQuestions |-> qs, out |-> <<>>, built |-> FALSE]

BuildNextQuery ==
  /\ ~ nextQuery.built
  /\ nextQuery' = [nextQuery EXCEPT !.built = TRUE,
                     !.out = NextQuery(nextQuery.goal, nextQuery.followUpQuestions)]
  /\ UNCHANGED <<calls, sink, onProgress, telemetry, trace, updates, jobs, clients, response>>

QuerySpec == InitQuery /\ [][BuildNextQuery]_vars

\* the follow-up questions, one per line, each after a dash
RECURSIVE Listing(_)
Listing(qs) ==
  IF qs = <<>> THEN <<>> ELSE Listing(Front(qs)) \o <<"\n", "-", " ">> \o Last(qs)

\* the goal after its label, then the questions in the extractor's order
WholeText(goal, qs) == <<GoalLabel>> \o goal \o <<"\n", DirectionsLabel>> \o Listing(qs)

\* C29 (as stated): the query of the recursive call holds the goal verbatim,
\* followed by every follow-up question once and in order, and nothing of
\* them is dropped.
C29_NothingDropped ==
  nextQuery.built =>
    nextQuery.out = WholeText(nextQuery.goal, nextQuery.followUpQuestions)

\* C29 (amended): the query is that text less the white space that ends its
\* last follow-up question: the goal and the questions before the last one
\* are whole, and only white space at the very end is dropped.
C29_NextQueryText ==
  nextQuery.built =>
    LET whole == WholeText(nextQuery.goal, nextQuery.followUpQuestions)
        lastQ == Last(nextQuery.followUpQuestions)
        out == nextQuery.out
    IN /\ Len(out) <= Len(whole)
       /\ Len(out) >= Len(whole) - Len(lastQ)
       /\ out = SubSeq(whole, 1, Len(out))
       /\ \A i \in (Len(out) + 1)..Len(whole) : IsSpace(whole[i])
       /\ ~ IsSpace(out[Len(out)])

C29_Witness ==
  /\ nextQuery.built
  /\ Len(nextQuery.followUpQuestions) = 2
  /\ nextQuery.goal = <<"g", "\n">>
  /\ nextQuery.followUpQuestions[2] = <<"q", " ">>
  /\ nextQuery.out = <<GoalLabel, "g", "\n", "\n", DirectionsLabel, "\n", "-", " ">>
                       \o nextQuery.followUpQuestions[1] \o <<"\n", "-", " ", "q">>

(***************************************************************************)
(* TraceManager.updateTraceMetadata (src/ai/telemetry.ts).  trace is the   *)
(* set of metadata keys of the remote trace; an update of the trace        *)
(* replaces its metadata by the metadata sent, which is why the method     *)
(* fetches the trace and sends the fetched metadata merged with its own.   *)
(* updates holds the calls of the method: the onProgress callbacks of      *)
(* runResearch and of the research route call it without awaiting it, so   *)
(* several calls are in progress at once.                                  *)
(***************************************************************************)
MaxUpdates == 3

\* the metadata of the two callers
MetadataArgs == { {"currentProgress", "timestamp"}, {"currentProgress", "updatedAt"} }

InitTrace ==
  /\ calls = (<<>> :> NewCall(defaultDepth, defaultBreadth, <<>>, <<>>))
  /\ sink = <<>>
  /\ onProgress = "returns"
  /\ telemetry = "ok"
  /\ nextQuery = NoNextQuery
  /\ trace \in { {}, {"query"} }
  /\ updates = <<>>
  /\ NoApi

\* updateTraceMetadata(metadata) is called and runs up to its await
UpdateTraceMetadata(metadata) ==
  /\ Len(updates) < MaxUpdates
  /\ updates' = Append(updates, [metadata |-> metadata, pc |-> "fetching",
                                 fetched |-> {}, wrote |-> {}, stale |-> FALSE])
  /\ UNCHANGED <<calls, sink, onProgress, telemetry, nextQuery, trace, jobs, clients, response>>

\* the server answers fetchTrace with the metadata the trace has now
FetchTraceServed(i) ==
  /\ i \in 1..Len(updates)
  /\ updates[i].pc = "fetching"
  /\ updates' = [updates EXCEPT ![i].pc = "served", ![i].fetched = trace]
  /\ UNCHANGED <<calls, sink, onProgress, telemetry, nextQuery, trace, jobs, clients, response>>

\* fetchTrace raises or returns no data: the method returns false
FetchTraceFails(i) ==
  /\ i \in 1..Len(updates)
  /\ updates[i].pc = "fetching"
  /\ updates' = [updates EXCEPT ![i].pc = "failed"]
  /\ UNCHANGED <<calls, sink, onProgress, telemetry, nextQuery, trace, jobs, clients, response>>

TraceUpdateWithoutMerge(i) ==
  /\ i \in 1..Len(updates)
  /\ updates[i].pc = "served"
  /\ LET merged == updates[i].metadata \cup {"updatedAt"}
     IN /\ trace' = merged
        /\ updates' = [updates EXCEPT ![i].pc = "done", ![i].wrote = merged,
                                      ![i].stale = (updates[i].fetched # trace)]
  /\ UNCHANGED <<calls, sink, onProgress, telemetry, nextQuery, jobs, clients, response>>

\* the answer of fetchTrace arrives and the trace is updated with
\* {...currentMetadata, ...metadata, updatedAt}
TraceUpdate(i) ==
  /\ i \in 1..Len(updates)
  /\ updates[i].pc = "served"
  /\ LET merged == updates[i].fetched \cup updates[i].metadata \cup {"updatedAt"}
     IN /\ trace' = merged
        /\ updates' = [updates EXCEPT ![i].pc = "done", ![i].wrote = merged,
                                      ![i].stale = (updates[i].fetched # trace)]
  /\ UNCHANGED <<calls, sink, onProgress, telemetry, nextQuery, jobs, clients, response>>

NextTrace ==
  \/ \E m \in MetadataArgs : UpdateTraceMetadata(m)
  \/ \E i \in 1..MaxUpdates : FetchTraceServed(i)
  \/ \E i \in 1..MaxUpdates : FetchTraceFails(i)
  \/ \E i \in 1..MaxUpdates : TraceUpdate(i)

TraceSpec == InitTrace /\ [][NextTrace]_vars

\* the calls of updateTraceMetadata that have updated the trace
Written == { i \in 1..Len(updates) : updates[i].pc = "done" }

\* a key that a finished call wrote is not in the trace
LostUpdate ==
  /\ \A i \in 1..Len(updates) : updates[i].pc \in {"done", "failed"}
  /\ \E i \in Written : ~ (updates[i].metadata \subseteq trace)

\* C30: updateTraceMetadata is a fetch, a merge and a write that nothing
\* serializes: what a call writes is what it fetched merged with its own
\* keys, so a key written by another call between its fetch and its write
\* is lost; a key is lost only in that way.  (The witness is a lost update.)
C30_FetchMergeWrite ==
  /\ \A i \in Written :
       updates[i].wrote = updates[i].fetched \cup updates[i].metadata \cup {"updatedAt"}
  /\ Written # {} => \E i \in Written : trace = updates[i].wrote
  /\ LostUpdate => \E i \in Written : updates[i].stale

C30_Witness ==
  /\ LostUpdate
  /\ Cardinality(Written) = 2
  /\ "timestamp" \notin trace

(***************************************************************************)
(* The REST API of src/api/routes/research.ts.  jobs is the Map of the     *)
(* jobs: a job is its JobStatus record together with the position of its   *)
(* runner (the callback given to process.nextTick), the options of the     *)
(* request, the parameters runResearch gave to deepResearch, and the log    *)
(* lines that runResearch and the engine have emitted.  clients holds the   *)
(* SSE responses that were opened, with every event written to them, and   *)
(* response is the answer to the last request of the other routes.  A      *)
(* request handler is synchronous and is one step; the runner is cut at    *)
(* its awaits of runResearch and of traceManager.finishTrace.              *)
(***************************************************************************)
MaxClients == 2

MaxEngineLogs == 1

\* the ids of the requests: the last one is never the id of a job
JobIds == 1..2

ClientIds == 1..MaxClients

\* options.depth and options.breadth: absent, or a number
Options ==
  { o \in UNION { [D -> {0, 1}] : D \in SUBSET {"breadth", "depth"} } :
      Cardinality(DOMAIN o) <= 1 }

\* what runResearch returns: reportPath is always set, actionPlanPath only
\* when an action plan was generated
Results == { [reportPath |-> TRUE, actionPlanPath |-> a] : a \in BOOLEAN }

NoResult == [reportPath |-> FALSE, actionPlanPath |-> FALSE]

ResearchError == "Research process failed"

SetupError == "mkdir failed"

\* the message of the ReferenceError raised by the read of the undeclared
\* identifier job
JobIsNotDefined == "job is not defined"

\* options.depth || config.research.defaultDepth
OrDefault(o, k, d) == IF k \in DOMAIN o /\ o[k] # 0 THEN o[k] ELSE d

NewJob(options) ==
  [ status |-> "pending",
    hasResult |-> FALSE,
    result |-> NoResult,
    error |-> "",
    errorDetails |-> FALSE,
    logs |-> <<>>,
    progress |-> FALSE,
    sseClients |-> {},
    pc |-> "research",
    options |-> options,
    research |-> <<>>,
    thrown |-> "",
    emitted |-> <<>> ]

NewClient(jobId) == [jobId |-> jobId, events |-> <<>>, ended |-> FALSE, closed |-> FALSE]

\* client.write(...) to every client of the set
WriteAll(cl, S, event) ==
  [c \in DOMAIN cl |-> IF c \in S THEN [cl[c] EXCEPT !.events = Append(@, event)] ELSE cl[c]]

\* client.end() on every client of the set
EndAll(cl, S) ==
  [c \in DOMAIN cl |-> IF c \in S THEN [cl[c] EXCEPT !.ended = TRUE] ELSE cl[c]]

LogEvent(message) == [type |-> "log", message |-> message]

ErrorEvent(error) == [type |-> "error", error |-> error]

CompletedEvent == [type |-> "completed"]

ProgressEvent == [type |-> "progress"]

StatusEvent(status) == [type |-> "status", status |-> status]

IsTerminal(event) == event.type \in {"completed", "error"}

\* SSEOutputManager.log of the lines, one after the other
RECURSIVE SseLog(_, _, _)
SseLog(cl, S, lines) ==
  IF lines = <<>> THEN cl ELSE SseLog(WriteAll(cl, S, LogEvent(Head(lines))), S, Tail(lines))

\* the lines that the catch of the job runner logs through the
\* SSEOutputManager
ErrorLines(error, analysed) ==
  <<"=== Error in Research Process ===", error,
    IF analysed THEN "Detailed error report saved" ELSE "Error during error analysis">>

engine == <<calls, sink, onProgress, telemetry, nextQuery, trace, updates>>

\* POST /api/research.  The callback given to process.nextTick runs before
\* any other request is handled: the job is running, or has failed in its
\* setup, when the next handler runs.  runResearch runs up to its first
\* await and has given deepResearch its parameters.
Post(query, options, setup) ==
  /\ IF ~ query
     THEN /\ response' = Response("post", 0, 400, "", FALSE, "Query parameter is required")
          /\ UNCHANGED jobs
     ELSE /\ jobs = <<>>
          /\ response' = Response("post", 1, 202, "pending", FALSE, "")
          /\ jobs' = (1 :>
               IF setup
               THEN [NewJob(options) EXCEPT
                       !.status = "running",
                       !.research = [breadth |-> OrDefault(options, "breadth", defaultBreadth),
                                     depth |-> OrDefault(options, "depth", defaultDepth)]]
               ELSE [NewJob(options) EXCEPT
                       !.status = "failed", !.error = SetupError,
                       !.errorDetails = TRUE, !.pc = "finishSetup"])
  /\ UNCHANGED clients
  /\ UNCHANGED engine

\* runResearch or the engine logs a line: it goes to the OutputManager that
\* runResearch has made for itself
ResearchLogs(id) ==
  /\ id \in DOMAIN jobs
  /\ jobs[id].pc = "research"
  /\ Len(jobs[id].emitted) < MaxEngineLogs
  /\ jobs' = [jobs EXCEPT ![id].emitted = Append(@, "Generating SERP queries...")]
  /\ UNCHANGED <<clients, response>>
  /\ UNCHANGED engine

\* the onProgress callback of the job
ResearchProgress(id) ==
  /\ id \in DOMAIN jobs
  /\ jobs[id].pc = "research"
  /\ ~ jobs[id].progress
  /\ jobs' = [jobs EXCEPT ![id].progress = TRUE]
  /\ clients' = WriteAll(clients, jobs[id].sseClients, ProgressEvent)
  /\ UNCHANGED response
  /\ UNCHANGED engine

ResearchReturnsStatusOnly(id, result) ==
  /\ id \in DOMAIN jobs
  /\ jobs[id].pc = "research"
  /\ jobs' = [jobs EXCEPT ![id].status = "completed", ![id].pc = "finishSuccess"]
  /\ UNCHANGED <<clients, response>>
  /\ UNCHANGED engine

\* runResearch returns: the job is completed with its result, and the
\* runner awaits finishTrace
ResearchReturns(id, result) ==
  /\ id \in DOMAIN jobs
  /\ jobs[id].pc = "research"
  /\ jobs' = [jobs EXCEPT ![id].status = "completed", ![id].hasResult = TRUE,
                          ![id].result = result, ![id].pc = "finishSuccess"]
  /\ UNCHANGED <<clients, response>>
  /\ UNCHANGED engine

FinishSuccessFails(id) ==
  /\ id \in DOMAIN jobs
  /\ jobs[id].pc = "finishSuccess"
  /\ jobs' = [jobs EXCEPT ![id].status = "failed", ![id].error = "finishTrace failed",
                          ![id].pc = "finishError"]
  /\ UNCHANGED <<clients, response>>
  /\ UNCHANGED engine

\* finishTrace('success') returns: the clients get the completed event
FinishSuccess(id) ==
  /\ id \in DOMAIN jobs
  /\ jobs[id].pc = "finishSuccess"
  /\ jobs' = [jobs EXCEPT ![id].pc = "done"]
  /\ clients' = EndAll(WriteAll(clients, jobs[id].sseClients, CompletedEvent),
                       jobs[id].sseClients)
  /\ UNCHANGED response
  /\ UNCHANGED engine

ResearchThrowsUnmarked(id, analysed) ==
  /\ id \in DOMAIN jobs
  /\ jobs[id].pc = "research"
  /\ jobs' = [jobs EXCEPT ![id].thrown = ResearchError,
                          ![id].logs = @ \o ErrorLines(ResearchError, analysed),
                          ![id].pc = "done"]
  /\ clients' = SseLog(clients, jobs[id].sseClients, ErrorLines(ResearchError, analysed))
  /\ UNCHANGED response
  /\ UNCHANGED engine

\* runResearch throws: the catch logs the error, analyses it, marks the job
\* failed, and awaits finishTrace
ResearchThrows(id, analysed) ==
  /\ id \in DOMAIN jobs
  /\ jobs[id].pc = "research"
  /\ jobs' = [jobs EXCEPT ![id].status = "failed", ![id].error = ResearchError,
                          ![id].thrown = ResearchError,
                          ![id].errorDetails = analysed,
                          ![id].logs = @ \o ErrorLines(ResearchError, analysed),
                          ![id].pc = "finishError"]
  /\ clients' = SseLog(clients, jobs[id].sseClients, ErrorLines(ResearchError, analysed))
  /\ UNCHANGED response
  /\ UNCHANGED engine

\* finishTrace('error') returns in the catch.  The next statement reads
\* job.sseClients, and no job is declared in the handler: the ReferenceError
\* leaves the catch and is caught by the catch of the setup, which marks the
\* job failed with the message of the ReferenceError, notifies the clients
\* and awaits finishTrace
FinishError(id) ==
  /\ id \in DOMAIN jobs
  /\ jobs[id].pc = "finishError"
  /\ jobs' = [jobs EXCEPT ![id].status = "failed", ![id].error = JobIsNotDefined,
                          ![id].errorDetails = TRUE, ![id].pc = "finishSetup"]
  /\ clients' = EndAll(WriteAll(clients, jobs[id].sseClients, ErrorEvent(JobIsNotDefined)),
                       jobs[id].sseClients)
  /\ UNCHANGED response
  /\ UNCHANGED engine

\* finishTrace('error') returns in the catch of the setup
FinishSetup(id) ==
  /\ id \in DOMAIN jobs
  /\ jobs[id].pc = "finishSetup"
  /\ jobs' = [jobs EXCEPT ![id].pc = "done"]
  /\ UNCHANGED <<clients, response>>
  /\ UNCHANGED engine

\* what the stream handler writes to a new client: the logs so far, the
\* progress, the status, and the terminal event of a job that has ended
RECURSIVE LogEvents(_)
LogEvents(logs) ==
  IF logs = <<>> THEN <<>> ELSE <<LogEvent(Head(logs))>> \o LogEvents(Tail(logs))

Replay(job) ==
  LogEvents(job.logs)
  \o (IF job.progress THEN <<ProgressEvent>> ELSE <<>>)
  \o <<StatusEvent(job.status)>>

StreamRegistersAlways(id) ==
  LET c == Len(clients) + 1
  IN /\ c \in ClientIds
     /\ IF id \notin DOMAIN jobs
        THEN /\ response' = Response("stream", id, 404, "", FALSE, "Job not found")
             /\ UNCHANGED <<jobs, clients>>
        ELSE /\ clients' = Append(clients, [NewClient(id) EXCEPT !.events = Replay(jobs[id])])
             /\ jobs' = [jobs EXCEPT ![id].sseClients = @ \cup {c}]
             /\ UNCHANGED response
     /\ UNCHANGED engine

\* GET /api/research/:jobId/stream
Stream(id) ==
  LET c == Len(clients) + 1
  IN /\ c \in ClientIds
     /\ IF id \notin DOMAIN jobs
        THEN /\ response' = Response("stream", id, 404, "", FALSE, "Job not found")
             /\ UNCHANGED <<jobs, clients>>
        ELSE /\ UNCHANGED response
             /\ IF jobs[id].status = "completed" /\ jobs[id].hasResult
                THEN /\ clients' = Append(clients,
                          [NewClient(id) EXCEPT !.events = Replay(jobs[id]) \o <<CompletedEvent>>,
                                                !.ended = TRUE])
                     /\ UNCHANGED jobs
                ELSE IF jobs[id].status = "failed"
                THEN /\ clients' = Append(clients,
                          [NewClient(id) EXCEPT
                             !.events = Replay(jobs[id]) \o <<ErrorEvent(jobs[id].error)>>,
                             !.ended = TRUE])
                     /\ UNCHANGED jobs
                ELSE /\ clients' = Append(clients,
                          [NewClient(id) EXCEPT !.events = Replay(jobs[id])])
                     /\ jobs' = [jobs EXCEPT ![id].sseClients = @ \cup {c}]
     /\ UNCHANGED engine

\* the close event of the request of a registered client
ClientCloses(c) ==
  /\ c \in 1..Len(clients)
  /\ c \in jobs[clients[c].jobId].sseClients
  /\ jobs' = [jobs EXCEPT ![clients[c].jobId].sseClients = @ \ {c}]
  /\ clients' = [clients EXCEPT ![c].closed = TRUE]
  /\ UNCHANGED response
  /\ UNCHANGED engine

\* the body of GET /api/research/:jobId
StatusResponse(id, job) ==
  Response("status", id, 200, job.status,
           job.status = "completed" /\ job.hasResult,
           IF job.status = "failed" THEN job.error ELSE "")

\* GET /api/research/:jobId
GetStatus(id) ==
  /\ response' = IF id \in DOMAIN jobs THEN StatusResponse(id, jobs[id])
                 ELSE Response("status", id, 404, "", FALSE, "Job not found")
  /\ UNCHANGED <<jobs, clients>>
  /\ UNCHANGED engine

\* job.result?.reportPath and job.result?.actionPlanPath
ResultPath(job, route) ==
  job.hasResult /\ (IF route = "report" THEN job.result.reportPath
                    ELSE job.result.actionPlanPath)

DownloadIgnoresStatus(route, id, exists) ==
  /\ response' =
       IF id \notin DOMAIN jobs THEN Response(route, id, 404, "", FALSE, "Job not found")
       ELSE IF ~ ResultPath(jobs[id], route) \/ ~ exists
       THEN Response(route, id, 404, jobs[id].status, FALSE, "file not found")
       ELSE Response(route, id, 200, jobs[id].status, TRUE, "")
  /\ UNCHANGED <<jobs, clients>>
  /\ UNCHANGED engine

\* GET /api/research/:jobId/report and GET /api/research/:jobId/action-plan;
\* exists is the answer of fs.existsSync
Download(route, id, exists) ==
  /\ response' =
       IF id \notin DOMAIN jobs THEN Response(route, id, 404, "", FALSE, "Job not found")
       ELSE IF jobs[id].status # "completed"
       THEN Response(route, id, 400, jobs[id].status, FALSE, "Research is not completed yet")
       ELSE IF ~ ResultPath(jobs[id], route) \/ ~ exists
       THEN Response(route, id, 404, jobs[id].status, FALSE, "file not found")
       ELSE Response(route, id, 200, jobs[id].status, TRUE, "")
  /\ UNCHANGED <<jobs, clients>>
  /\ UNCHANGED engine

InitJobs ==
  /\ calls = (<<>> :> NewCall(defaultDepth, defaultBreadth, <<>>, <<>>))
  /\ sink = <<>>
  /\ onProgress = "returns"
  /\ telemetry = "ok"
  /\ nextQuery = NoNextQuery
  /\ trace = {}
  /\ updates = <<>>
  /\ NoApi

\* the steps of the job runner
Runner ==
  \/ \E id \in JobIds : ResearchLogs(id)
  \/ \E id \in JobIds : ResearchProgress(id)
  \/ \E id \in JobIds, result \in Results : ResearchReturns(id, result)
  \/ \E id \in JobIds, analysed \in BOOLEAN : ResearchThrows(id, analysed)
  \/ \E id \in JobIds : FinishSuccess(id)
  \/ \E id \in JobIds : FinishError(id)
  \/ \E id \in JobIds : FinishSetup(id)

NextJobs ==
  \/ \E query \in BOOLEAN, options \in Options, setup \in BOOLEAN : Post(query, options, setup)
  \/ \E id \in JobIds : ResearchLogs(id)
  \/ \E id \in JobIds : ResearchProgress(id)
  \/ \E id \in JobIds, result \in Results : ResearchReturns(id, result)
  \/ \E id \in JobIds, analysed \in BOOLEAN : ResearchThrows(id, analysed)
  \/ \E id \in JobIds : FinishSuccess(id)
  \/ \E id \in JobIds : FinishError(id)
  \/ \E id \in JobIds : FinishSetup(id)
  \/ \E id \in JobIds : Stream(id)
  \/ \E c \in ClientIds : ClientCloses(c)
  \/ \E id \in JobIds : GetStatus(id)
  \/ \E route \in {"report", "action-plan"}, id \in JobIds, exists \in BOOLEAN :
       Download(route, id, exists)

JobSpec == InitJobs /\ [][NextJobs]_vars

\* runResearch and finishTrace eventually return or throw
FairJobSpec == InitJobs /\ [][NextJobs]_vars /\ WF_vars(Runner)

(***************************************************************************)
(* Properties of the REST API.                                             *)
(***************************************************************************)
Terminals(events) == { i \in 1..Len(events) : IsTerminal(events[i]) }

\* C32: when runResearch has thrown, the job is failed and its error, in
\* the answer of GET /api/research/:jobId and in the error event of the
\* stream, is the message of the error that runResearch has thrown.
C32_ErrorIsTheThrownMessage ==
  \A id \in DOMAIN jobs :
    jobs[id].thrown # "" =>
      /\ jobs[id].status = "failed"
      /\ jobs[id].error = jobs[id].thrown
      /\ (response.route = "status" /\ response.jobId = id /\ response.status = "failed") =>
           response.error = jobs[id].thrown
      /\ \A c \in 1..Len(clients) : \A i \in 1..Len(clients[c].events) :
           (clients[c].jobId = id /\ clients[c].events[i].type = "error") =>
             clients[c].events[i].error = jobs[id].thrown

StatusRank(status) ==
  CASE status = "pending" -> 0
    [] status = "running" -> 1
    [] OTHER -> 2

\* C33: the status of a job only moves forward, from pending to running to
\* completed or failed; completed and failed are never left.
C33_StatusMovesForward ==
  [][\A id \in DOMAIN jobs :
       /\ id \in DOMAIN jobs'
       /\ StatusRank(jobs'[id].status) >= StatusRank(jobs[id].status)
       /\ jobs[id].status \in {"completed", "failed"} =>
            jobs'[id].status = jobs[id].status]_vars

\* the job has been failed twice, by the catch of the research and by the
\* catch of the setup
C33_Witness ==
  /\ jobs # <<>>
  /\ jobs[1].status = "failed"
  /\ jobs[1].thrown # ""
  /\ jobs[1].pc = "done"

\* C34: every job that was created is eventually completed or failed, when
\* runResearch eventually returns or throws.
C34_JobTerminates ==
  (jobs # <<>>) ~> (jobs # <<>> /\ jobs[1].status \in {"completed", "failed"})

C34_Witness ==
  /\ jobs # <<>>
  /\ jobs[1].status = "completed"
  /\ jobs[1].pc = "done"
  /\ jobs[1].progress

\* C35: a completed job has its result, in the job and in what the status
\* handler and the stream handler have seen of it: an answer with status
\* completed holds the result, and a client that was sent the status
\* completed was sent the completed event after it.
C35_CompletedHasResult ==
  /\ \A id \in DOMAIN jobs : jobs[id].status = "completed" => jobs[id].hasResult
  /\ (response.route = "status" /\ response.status = "completed") => response.result
  /\ \A c \in 1..Len(clients) : \A i \in 1..Len(clients[c].events) :
       clients[c].events[i] = StatusEvent("completed") =>
         /\ i < Len(clients[c].events)
         /\ clients[c].events[i + 1] = CompletedEvent

\* the status handler and the stream handler have run while the runner,
\* which has completed the job, awaits finishTrace
C35_Witness ==
  /\ jobs # <<>>
  /\ jobs[1].pc = "finishSuccess"
  /\ response.route = "status" /\ response.status = "completed"
  /\ Len(clients) >= 1
  /\ clients[1].events = <<StatusEvent("completed"), CompletedEvent>>

\* every client that was opened has been sent its terminal event and was
\* ended, or has closed
AllNotified ==
  \A c \in 1..Len(clients) : clients[c].ended \/ clients[c].closed

C37_EngineLogsReachTheJob ==
  \A id \in DOMAIN jobs : \A i \in 1..Len(jobs[id].emitted) :
    \E k \in 1..Len(jobs[id].logs) : jobs[id].logs[k] = jobs[id].emitted[i]

\* C38: deepResearch gets the breadth and the depth of the options, and the
\* defaults only for an option that is absent.
C38_OptionsPassedUnchanged ==
  \A id \in DOMAIN jobs :
    jobs[id].research # <<>> =>
      /\ jobs[id].research.depth =
           (IF "depth" \in DOMAIN jobs[id].options
            THEN jobs[id].options["depth"] ELSE defaultDepth)
      /\ jobs[id].research.breadth =
           (IF "breadth" \in DOMAIN jobs[id].options
            THEN jobs[id].options["breadth"] ELSE defaultBreadth)

Downloads == {"report", "action-plan"}

\* C39: a download request is answered 404 for an unknown job, 400 for a
\* job that is not completed, and a file is sent only for a completed job
\* whose result has the path.
C39_Downloads ==
  [][(response' # response /\ response'.route \in Downloads) =>
       LET id == response'.jobId
       IN /\ id \notin DOMAIN jobs => response'.code = 404
          /\ (id \in DOMAIN jobs /\ jobs[id].status # "completed") => response'.code = 400
          /\ response'.code = 200 =>
               /\ id \in DOMAIN jobs
               /\ jobs[id].status = "completed"
               /\ ResultPath(jobs[id], response'.route)]_vars

\* the action plan of a completed job without an action plan is asked for
C39_Witness ==
  /\ response.route = "action-plan"
  /\ response.code = 404
  /\ response.status = "completed"

====
